---- MODULE Spec2Model ----
(***************************************************************************)
(* The client-side analysis workflow of the repository-documentation       *)
(* front end: the App component (workflow, search), the RepoInput form     *)
(* (URL validation, submission), the CodeExplorer component (file          *)
(* selection, code explanation) and the api service helpers.               *)
(*                                                                         *)
(* Conventions.                                                            *)
(*  - A JavaScript value that may be null is a sequence of length <= 1:    *)
(*    None is null, Some(v) is the value v.                                *)
(*  - A string the code inspects character by character (the repository    *)
(*    URL, the search query) is a sequence of one-character strings; a     *)
(*    string the code only stores and compares is a TLA+ string.           *)
(*  - A React component's state exists only while the component is         *)
(*    mounted; while it is unmounted the model holds its variables at      *)
(*    their useState initial values, which is what the next mount sees.    *)
(*  - One action is one event-loop task: an event handler up to its first  *)
(*    await, or the continuation of an await, followed by the re-render.   *)
(***************************************************************************)
EXTENDS Integers, Sequences, FiniteSets, TLC

VARIABLES
    \* App (useState)
    analysisData, isLoading, error, currentRepo, searchResults, activeTab,
    backendHealth,
    \* RepoInput (useState)
    repoUrl, branch, isValid, showValidation,
    \* CodeExplorer (useState)
    selectedFile, explanation, isExplaining, selectedCode, searchQuery,
    \* requests awaiting their response
    analyzeReqs, explainReqs, searchReqs, healthReqs,
    \* GET /health requests issued and Retry Connection clicks so far (history)
    healthIssued, retries,
    \* CodeExplorer: the files given to buildFileTree and what the call gave
    files, fileTree,
    \* QualityScore: the props given to the component and its state (useState)
    props, metrics,
    \* the task that ran last (history, read by no action)
    last

appVars      == <<analysisData, isLoading, error, currentRepo, searchResults, activeTab>>
inputVars    == <<repoUrl, branch, isValid, showValidation>>
explorerVars == <<selectedFile, explanation, isExplaining, selectedCode, searchQuery>>
netVars      == <<analyzeReqs, explainReqs, searchReqs>>
healthVars   == <<backendHealth, healthReqs, healthIssued, retries>>
treeVars     == <<files, fileTree>>
\* what the handlers of the form, the workflow, the search and the explorer
\* leave alone
metricVars   == <<props, metrics>>
asideVars    == <<healthVars, treeVars, metricVars>>
vars         == <<appVars, inputVars, explorerVars, netVars, healthVars, treeVars,
                 metricVars, last>>

None    == << >>
Some(v) == <<v>>

----------------------------------------------------------------------------
(* Bounds of the model. *)

\* search requests that may be awaiting a response at once
MaxSearch == 2
\* explanation requests that may be awaiting a response at once
MaxExplain == 2
\* clicks on Retry Connection
MaxRetries == 2
\* file records in a list given to buildFileTree
MaxFiles == 3
\* entries in the analysis list given to QualityScore
MaxEntries == 3
\* files.length as QualityScore sees it
MaxFileCount == 2

----------------------------------------------------------------------------
(* Strings as character sequences. *)

HttpsGithub == <<"h", "t", "t", "p", "s", ":", "/", "/", "g", "i", "t", "h", "u", "b", ".", "c", "o", "m", "/">>
GitAtGithub == <<"g", "i", "t", "@", "g", "i", "t", "h", "u", "b", ".", "c", "o", "m", ":">>
DotGit == <<".", "g", "i", "t">>
GithubComSlash == <<"g", "i", "t", "h", "u", "b", ".", "c", "o", "m", "/">>

\* the character class [a-zA-Z0-9_.-]
NameChars ==
    {"a", "b", "c", "d", "e", "f", "g", "h", "i", "j", "k", "l", "m", "n", "o", "p", "q", "r", "s", "t", "u", "v", "w", "x", "y", "z",
     "A", "B", "C", "D", "E", "F", "G", "H", "I", "J", "K", "L", "M", "N", "O", "P", "Q", "R", "S", "T", "U", "V", "W", "X", "Y", "Z",
     "0", "1", "2", "3", "4", "5", "6", "7", "8", "9", "_", ".", "-"}

WhiteSpace == {" ", "\t", "\n"}

Drop(s, n) == SubSeq(s, n + 1, Len(s))

StartsWith(s, p) == Len(s) >= Len(p) /\ SubSeq(s, 1, Len(p)) = p

EndsWith(s, p) == Len(s) >= Len(p) /\ SubSeq(s, Len(s) - Len(p) + 1, Len(s)) = p

\* whether p occurs in s at position i
HasAt(s, i, p) == i + Len(p) - 1 <= Len(s) /\ SubSeq(s, i, i + Len(p) - 1) = p

RECURSIVE TrimStart(_)
TrimStart(s) == IF s # << >> /\ Head(s) \in WhiteSpace THEN TrimStart(Tail(s)) ELSE s

RECURSIVE TrimEnd(_)
TrimEnd(s) ==
    IF s # << >> /\ s[Len(s)] \in WhiteSpace THEN TrimEnd(SubSeq(s, 1, Len(s) - 1)) ELSE s

\* String.prototype.trim
Trim(s) == TrimEnd(TrimStart(s))

\* [a-zA-Z0-9_.-]+ matching the whole of s
IsName(s) == Len(s) >= 1 /\ \A i \in 1..Len(s) : s[i] \in NameChars

\* [a-zA-Z0-9_.-]+\/[a-zA-Z0-9_.-]+\/?$ matching the whole of s
OwnerRepoSlash(s) ==
    \E i \in 1..Len(s) :
        /\ s[i] = "/"
        /\ IsName(SubSeq(s, 1, i - 1))
        /\ \/ IsName(Drop(s, i))
           \/ /\ s[Len(s)] = "/"
              /\ IsName(SubSeq(s, i + 1, Len(s) - 1))

\* [a-zA-Z0-9_.-]+\/[a-zA-Z0-9_.-]+\.git$ matching the whole of s
OwnerRepoGit(s) ==
    \E i \in 1..Len(s) :
        /\ s[i] = "/"
        /\ IsName(SubSeq(s, 1, i - 1))
        /\ EndsWith(Drop(s, i), DotGit)
        /\ IsName(SubSeq(s, i + 1, Len(s) - Len(DotGit)))

\* (variant: the first pattern without its optional trailing slash)
Pattern1_NoSlash(t) ==
    /\ StartsWith(t, HttpsGithub)
    /\ \E i \in Len(HttpsGithub) + 1..Len(t) :
           /\ t[i] = "/"
           /\ IsName(SubSeq(t, Len(HttpsGithub) + 1, i - 1))
           /\ IsName(Drop(t, i))

\* the three githubPatterns, in the order of the source
Pattern1(t) == StartsWith(t, HttpsGithub) /\ OwnerRepoSlash(Drop(t, Len(HttpsGithub)))
Pattern2(t) == StartsWith(t, GitAtGithub) /\ OwnerRepoGit(Drop(t, Len(GitAtGithub)))
Pattern3(t) == StartsWith(t, HttpsGithub) /\ OwnerRepoGit(Drop(t, Len(HttpsGithub)))

validateGitHubUrl(url) ==
    LET t == Trim(url) IN Pattern1(t) \/ Pattern2(t) \/ Pattern3(t)

\* the length of the longest run of characters outside `stop` that starts at i
RECURSIVE RunLen(_, _, _)
RunLen(s, i, stop) ==
    IF i > Len(s) \/ s[i] \in stop THEN 0 ELSE 1 + RunLen(s, i + 1, stop)

\* github\.com\/([^\/]+)\/([^\/\.]+) matching at position p of s
MatchesAt(s, p) ==
    LET a  == p + Len(GithubComSlash)
        n1 == RunLen(s, a, {"/"})
        b  == a + n1
    IN  /\ HasAt(s, p, GithubComSlash)
        /\ n1 >= 1
        /\ b <= Len(s)
        /\ s[b] = "/"
        /\ RunLen(s, b + 1, {"/", "."}) >= 1

extractRepoInfo(url) ==
    LET hits == {p \in 1..Len(url) : MatchesAt(url, p)}
    IN  IF hits = {} THEN None
        ELSE LET p  == CHOOSE q \in hits : \A r \in hits : q <= r
                 a  == p + Len(GithubComSlash)
                 n1 == RunLen(url, a, {"/"})
                 n2 == RunLen(url, a + n1 + 1, {"/", "."})
             IN  Some([owner |-> SubSeq(url, a, a + n1 - 1),
                       repo  |-> SubSeq(url, a + n1 + 1, a + n1 + n2)])

----------------------------------------------------------------------------
(* Inputs. *)

exampleRepos ==
    << <<"h", "t", "t", "p", "s", ":", "/", "/", "g", "i", "t", "h", "u", "b", ".", "c", "o", "m", "/", "m", "i", "c", "r", "o", "s", "o", "f", "t", "/", "v", "s", "c", "o", "d", "e">>,
       <<"h", "t", "t", "p", "s", ":", "/", "/", "g", "i", "t", "h", "u", "b", ".", "c", "o", "m", "/", "f", "a", "c", "e", "b", "o", "o", "k", "/", "r", "e", "a", "c", "t">>,
       <<"h", "t", "t", "p", "s", ":", "/", "/", "g", "i", "t", "h", "u", "b", ".", "c", "o", "m", "/", "t", "e", "n", "s", "o", "r", "f", "l", "o", "w", "/", "t", "e", "n", "s", "o", "r", "f", "l", "o", "w">>,
       <<"h", "t", "t", "p", "s", ":", "/", "/", "g", "i", "t", "h", "u", "b", ".", "c", "o", "m", "/", "p", "a", "l", "l", "e", "t", "s", "/", "f", "l", "a", "s", "k">> >>

UrlWeb == <<"h", "t", "t", "p", "s", ":", "/", "/", "g", "i", "t", "h", "u", "b", ".", "c", "o", "m", "/", "a", "c", "m", "e", "/", "w", "i", "d", "g", "e", "t", "s">>
UrlTrailingSlash == <<"h", "t", "t", "p", "s", ":", "/", "/", "g", "i", "t", "h", "u", "b", ".", "c", "o", "m", "/", "a", "c", "m", "e", "/", "w", "i", "d", "g", "e", "t", "s", "/">>
UrlOther == <<"h", "t", "t", "p", "s", ":", "/", "/", "e", "x", "a", "m", "p", "l", "e", ".", "c", "o", "m", "/", "a", "c", "m", "e", "/", "w", "i", "d", "g", "e", "t", "s">>
UrlSsh == <<"g", "i", "t", "@", "g", "i", "t", "h", "u", "b", ".", "c", "o", "m", ":", "a", "c", "m", "e", "/", "w", "i", "d", "g", "e", "t", "s", ".", "g", "i", "t">>
UrlPadded == <<" ", "h", "t", "t", "p", "s", ":", "/", "/", "g", "i", "t", "h", "u", "b", ".", "c", "o", "m", "/", "a", "c", "m", "e", "/", "w", "i", "d", ".", "g", "e", "t", "s", ".", "g", "i", "t", " ">>
UrlOwnerOnly == <<"h", "t", "t", "p", "s", ":", "/", "/", "g", "i", "t", "h", "u", "b", ".", "c", "o", "m", "/", "a", "c", "m", "e">>

\* what the user may type into the URL field
TypedUrls == {<< >>, UrlWeb, UrlTrailingSlash, UrlOther, UrlOwnerOnly, UrlSsh, UrlPadded}


----------------------------------------------------------------------------
(* Collaborators outside the program: what the backend may answer. *)

FileA == [path |-> "src/index.js", language |-> "javascript"]
FileB == [path |-> "src/utils/math.py", language |-> "python"]

\* the AnalysisResult payloads POST /analyze-repo may answer with
AnalysisResults ==
    {[repo_info |-> "first",  files |-> <<FileA, FileB>>],
     [repo_info |-> "second", files |-> <<FileB>>]}

FilesOf(result) == {result.files[i] : i \in 1..Len(result.files)}

\* the ways an axios call may fail: an error status with or without a
\* detail in the body, or no response at all (timeout, network unreachable)
AxiosErrors ==
    {[response |-> Some([status |-> st, detail |-> d]), code |-> None,
      message |-> "Request failed"] : st \in {422, 404, 500, 503}, d \in {None, Some("backend detail")}}
    \cup
    {[response |-> None, code |-> Some("ECONNABORTED"), message |-> "timeout of 60000ms exceeded"],
     [response |-> None, code |-> Some("ERR_NETWORK"), message |-> "Network Error"]}

\* what the user may type into the search field
TypedQueries == {<<" ">>, <<" ", "q">>, <<"r">>}

\* the answer of POST /explain-code to a request
ExplainResponse(req) ==
    [explanation |-> <<"explains", req.file_path, req.code_snippet>>,
     key_concepts |-> <<"concept">>, best_practices |-> << >>, potential_issues |-> << >>]

\* the answer of POST /search-code to a request
SearchResponse(req) ==
    [results |-> <<[file_path |-> "src/index.js", repo_name |-> req.repo_name,
                    query |-> req.query]>>]

----------------------------------------------------------------------------
(* services/api.js *)

\* error.response?.data?.detail || fallback, thrown as new Error(...):
\* the Error carries a message and neither response nor code
WrapError(axiosError, fallback) ==
    [response |-> None,
     code     |-> None,
     message  |-> IF axiosError.response # None /\ axiosError.response[1].detail # None
                  THEN axiosError.response[1].detail[1]
                  ELSE fallback]

analyzeRepositoryError(axiosError) == WrapError(axiosError, "Failed to analyze repository")

HasStatus(err, st) == err.response # None /\ err.response[1].status = st

formatError(err) ==
    IF HasStatus(err, 422) THEN "Invalid input data. Please check your repository URL."
    ELSE IF HasStatus(err, 404) THEN "Repository not found. Please check the URL and try again."
    ELSE IF HasStatus(err, 500) THEN "Server error. Please try again later."
    ELSE IF err.code = Some("NETWORK_ERROR")
         THEN "Network error. Please check your connection and ensure the backend is running."
    ELSE IF err.message # "" THEN err.message
    ELSE "An unexpected error occurred"

----------------------------------------------------------------------------
(* Rendering: which components are mounted, and their initial state. *)

\* (variant: the form rendered beside the results)
RepoInputMounted_BesideResults == ~isLoading

\* {!analysisData && !isLoading && <RepoInput .../>}
RepoInputMounted == analysisData = None /\ ~isLoading

\* {analysisData && ... activeTab === "explorer" && <CodeExplorer .../>}
ExplorerMounted == analysisData # None /\ activeTab = "explorer"

\* RepoInput with its useState initial values
RepoInputInit(url, br, valid, show) ==
    url = << >> /\ br = "main" /\ valid = FALSE /\ show = FALSE

\* CodeExplorer with its useState initial values
CodeExplorerInit(file, expl, explaining, code, query) ==
    file = None /\ expl = None /\ explaining = FALSE /\ code = "" /\ query = << >>

\* a request whose component has unmounted: its continuation still runs, and
\* React drops the state updates it makes
Orphaned(reqs) == [i \in 1..Len(reqs) |-> [reqs[i] EXCEPT !.mounted = FALSE]]

\* the re-render that follows a change of the App state: RepoInput and
\* CodeExplorer keep their state while they stay mounted and lose it otherwise
Render ==
    /\ IF RepoInputMounted'
       THEN UNCHANGED inputVars
       ELSE RepoInputInit(repoUrl', branch', isValid', showValidation')
    /\ IF ExplorerMounted'
       THEN UNCHANGED <<explorerVars, explainReqs>>
       ELSE /\ CodeExplorerInit(selectedFile', explanation', isExplaining',
                                selectedCode', searchQuery')
            /\ explainReqs' = Orphaned(explainReqs)

\* the state of the workflow as the page shows it: the loading panel, the
\* results, the error panel, or the form alone
WState ==
    IF isLoading THEN "Submitting"
    ELSE IF analysisData # None THEN "Ready"
    ELSE IF error # None THEN "Failed"
    ELSE "Idle"

Did(op, arg) == last' = [op |-> op, arg |-> arg, from |-> WState]

\* useEffect(() => { checkBackendHealth(); }, []): run once, at mount
mountEffect ==
    /\ healthReqs = 1
    /\ healthIssued = 1
    /\ retries = 0

InitApp ==
    /\ analysisData = None
    /\ isLoading = FALSE
    /\ error = None
    /\ currentRepo = None
    /\ searchResults = None
    /\ activeTab = "overview"
    /\ RepoInputInit(repoUrl, branch, isValid, showValidation)
    /\ CodeExplorerInit(selectedFile, explanation, isExplaining, selectedCode, searchQuery)
    /\ analyzeReqs = << >>
    /\ explainReqs = << >>
    /\ searchReqs = << >>
    /\ backendHealth = "checking"
    /\ mountEffect
    /\ last = [op |-> "init", arg |-> None, from |-> "Idle"]

\* no result held: CodeExplorer and QualityScore are not rendered
NotRendered ==
    /\ files = << >>
    /\ fileTree = None
    /\ props = None
    /\ metrics = None

Init == InitApp /\ NotRendered

----------------------------------------------------------------------------
(* components/RepoInput.jsx *)

\* (variant: any non-empty text taken as valid)
handleUrlChange_NoValidation(url) ==
    /\ RepoInputMounted
    /\ repoUrl' = url
    /\ isValid' = (Len(url) > 0)
    /\ showValidation' = (Len(url) > 0)
    /\ UNCHANGED <<branch, appVars, explorerVars, netVars>>
    /\ Did("handleUrlChange", url)

handleUrlChange(url) ==
    /\ RepoInputMounted
    /\ repoUrl' = url
    /\ isValid' = validateGitHubUrl(url)
    /\ showValidation' = (Len(url) > 0)
    /\ UNCHANGED <<branch, appVars, explorerVars, netVars>>
    /\ Did("handleUrlChange", url)

setBranch(b) ==
    /\ RepoInputMounted
    /\ branch' = b
    /\ UNCHANGED <<repoUrl, isValid, showValidation, appVars, explorerVars, netVars>>
    /\ Did("setBranch", b)

handleExampleClick(url) ==
    /\ RepoInputMounted
    /\ repoUrl' = url
    /\ isValid' = TRUE
    /\ showValidation' = TRUE
    /\ UNCHANGED <<branch, appVars, explorerVars, netVars>>
    /\ Did("handleExampleClick", url)

\* the repoData object handleSubmit passes to onAnalyze
RepoData ==
    LET repoInfo == extractRepoInfo(repoUrl)
    IN  [repo_url  |-> Trim(repoUrl),
         branch    |-> IF branch # "" THEN branch ELSE "main",
         repo_name |-> IF repoInfo # None
                       THEN repoInfo[1].owner \o <<"/">> \o repoInfo[1].repo
                       ELSE <<"u", "n", "k", "n", "o", "w", "n">>]

----------------------------------------------------------------------------
(* App.js: the analysis workflow *)

\* (variant: the loading flag not raised)
LoadingWhileSubmitting_Forgotten == FALSE

\* setIsLoading(true) at the start of handleAnalyzeRepo
LoadingWhileSubmitting == TRUE

\* (variant: the error of the previous attempt kept while loading)
handleAnalyzeRepo_KeepsError(repoData) ==
    /\ isLoading' = LoadingWhileSubmitting
    /\ analysisData' = None
    /\ searchResults' = None
    /\ currentRepo' = Some(repoData)
    /\ analyzeReqs' = Append(analyzeReqs, repoData)
    /\ UNCHANGED <<error, activeTab, searchReqs>>
    /\ Render

\* handleAnalyzeRepo up to its await
handleAnalyzeRepo(repoData) ==
    /\ isLoading' = LoadingWhileSubmitting
    /\ error' = None
    /\ analysisData' = None
    /\ searchResults' = None
    /\ currentRepo' = Some(repoData)
    /\ analyzeReqs' = Append(analyzeReqs, repoData)
    /\ UNCHANGED <<activeTab, searchReqs>>
    /\ Render

\* the form's submit event
handleSubmit ==
    /\ RepoInputMounted
    /\ IF isValid /\ ~isLoading
       THEN handleAnalyzeRepo(RepoData) /\ Did("handleSubmit", Some(RepoData))
       ELSE UNCHANGED <<appVars, inputVars, explorerVars, netVars>>
            /\ Did("handleSubmit", None)

\* handleAnalyzeRepo after its await, the call having succeeded
analyzeResolved(result) ==
    /\ analyzeReqs # << >>
    /\ analyzeReqs' = Tail(analyzeReqs)
    /\ analysisData' = Some(result)
    /\ activeTab' = "overview"
    /\ isLoading' = FALSE
    /\ UNCHANGED <<error, currentRepo, searchResults, searchReqs>>
    /\ Render
    /\ Did("analyzeResolved", Head(analyzeReqs))

\* (variant: the flag cleared on the success path only)
LoadingAfterFailure_NoFinally == TRUE

\* setIsLoading(false) in the finally block, reached from the catch
LoadingAfterFailure == FALSE

\* handleAnalyzeRepo after its await, the call having failed
analyzeRejected(axiosError) ==
    /\ analyzeReqs # << >>
    /\ analyzeReqs' = Tail(analyzeReqs)
    /\ error' = Some(formatError(analyzeRepositoryError(axiosError)))
    /\ isLoading' = LoadingAfterFailure
    /\ UNCHANGED <<analysisData, activeTab, currentRepo, searchResults, searchReqs>>
    /\ Render
    /\ Did("analyzeRejected", axiosError)

\* where the New Analysis and Try Again buttons, whose onClick is
\* clearAnalysis, are rendered
ClearOffered == analysisData # None \/ error # None

\* (variant: the held search results kept)
clearAnalysis_KeepsSearch ==
    /\ ClearOffered
    /\ analysisData' = None
    /\ error' = None
    /\ currentRepo' = None
    /\ activeTab' = "overview"
    /\ UNCHANGED <<searchResults, isLoading, analyzeReqs, searchReqs>>
    /\ Render
    /\ Did("clearAnalysis", [tab |-> activeTab, held |-> searchResults # None])

clearAnalysis ==
    /\ ClearOffered
    /\ analysisData' = None
    /\ error' = None
    /\ currentRepo' = None
    /\ searchResults' = None
    /\ activeTab' = "overview"
    /\ UNCHANGED <<isLoading, analyzeReqs, searchReqs>>
    /\ Render
    /\ Did("clearAnalysis", [tab |-> activeTab, held |-> searchResults # None])

\* the tab buttons, rendered with the analysis results
setActiveTab(tab) ==
    /\ analysisData # None
    /\ activeTab' = tab
    /\ UNCHANGED <<analysisData, isLoading, error, currentRepo, searchResults,
                   analyzeReqs, searchReqs>>
    /\ Render
    /\ Did("setActiveTab", tab)


----------------------------------------------------------------------------
(* App.js: search *)

SearchLimit == 10

\* (variant: the request names the repository by its URL)
handleSearch_ByUrl(query) ==
    IF currentRepo = None
    THEN UNCHANGED searchReqs
    ELSE searchReqs' = Append(searchReqs, [query     |-> query,
                                           repo_name |-> currentRepo[1].repo_url,
                                           limit     |-> SearchLimit,
                                           newer     |-> None])

\* App.handleSearch up to its await
handleSearch(query) ==
    IF currentRepo = None
    THEN UNCHANGED searchReqs
    ELSE searchReqs' = Append(searchReqs, [query     |-> query,
                                           repo_name |-> currentRepo[1].repo_name,
                                           limit     |-> SearchLimit,
                                           newer     |-> None])

\* requests issued before one whose response is delivered first: their
\* continuations still run later; each remembers the results that the search
\* issued after it has stored in the meantime (history, read by no action)
Overtaken(reqs, results) == [k \in 1..Len(reqs) |-> [reqs[k] EXCEPT !.newer = Some(results)]]

\* (variant: a response is stored only under the repository it was asked for)
searchResolved_ComparesContext(i) ==
    /\ i \in 1..Len(searchReqs)
    /\ IF currentRepo # None /\ currentRepo[1].repo_name = searchReqs[i].repo_name
       THEN searchResults' = Some(SearchResponse(searchReqs[i]))
       ELSE UNCHANGED searchResults
    /\ searchReqs' = Overtaken(SubSeq(searchReqs, 1, i - 1), SearchResponse(searchReqs[i]))
                         \o Drop(searchReqs, i)
    /\ UNCHANGED <<analysisData, isLoading, error, currentRepo, activeTab,
                   inputVars, explorerVars, analyzeReqs, explainReqs>>
    /\ Did("searchResolved", searchReqs[i])

\* App.handleSearch after its await, the call having succeeded
searchResolved(i) ==
    /\ i \in 1..Len(searchReqs)
    /\ searchResults' = Some(SearchResponse(searchReqs[i]))
    /\ searchReqs' = Overtaken(SubSeq(searchReqs, 1, i - 1), SearchResponse(searchReqs[i]))
                         \o Drop(searchReqs, i)
    /\ UNCHANGED <<analysisData, isLoading, error, currentRepo, activeTab,
                   inputVars, explorerVars, analyzeReqs, explainReqs>>
    /\ Did("searchResolved", searchReqs[i])

\* (variant: a failed search empties the held results)
searchRejected_DropsResults(i) ==
    /\ i \in 1..Len(searchReqs)
    /\ searchReqs' = SubSeq(searchReqs, 1, i - 1) \o Drop(searchReqs, i)
    /\ searchResults' = None
    /\ UNCHANGED <<analysisData, isLoading, error, currentRepo, activeTab,
                   inputVars, explorerVars, analyzeReqs, explainReqs>>
    /\ Did("searchRejected", searchReqs[i])

\* App.handleSearch after its await, the call having failed: the catch logs
searchRejected(i) ==
    /\ i \in 1..Len(searchReqs)
    /\ searchReqs' = SubSeq(searchReqs, 1, i - 1) \o Drop(searchReqs, i)
    /\ UNCHANGED <<appVars, inputVars, explorerVars, analyzeReqs, explainReqs>>
    /\ Did("searchRejected", searchReqs[i])

----------------------------------------------------------------------------
(* App.js: backend health *)

\* (variant: the indicator goes back to "checking" while a check is under way)
checkBackendHealth_ShowsChecking ==
    /\ healthReqs' = healthReqs + 1
    /\ healthIssued' = healthIssued + 1
    /\ backendHealth' = "checking"

\* App.checkBackendHealth up to its await: one GET /health
checkBackendHealth ==
    /\ healthReqs' = healthReqs + 1
    /\ healthIssued' = healthIssued + 1
    /\ UNCHANGED backendHealth

\* onClick={checkBackendHealth} of the Retry Connection button, rendered
\* while backendHealth is "error"
retryConnection ==
    /\ backendHealth = "error"
    /\ retries < MaxRetries
    /\ retries' = retries + 1
    /\ checkBackendHealth
    /\ UNCHANGED <<appVars, inputVars, explorerVars, netVars, treeVars, metricVars>>
    /\ Did("retryConnection", None)

\* App.checkBackendHealth after its await, the call having succeeded
healthResolved ==
    /\ healthReqs > 0
    /\ healthReqs' = healthReqs - 1
    /\ backendHealth' = "healthy"
    /\ UNCHANGED <<healthIssued, retries>>
    /\ UNCHANGED <<appVars, inputVars, explorerVars, netVars, treeVars, metricVars>>
    /\ Did("healthResolved", None)

\* (variant: a failed check is repeated at once)
healthRejected_Reissues ==
    /\ healthReqs > 0
    /\ backendHealth' = "error"
    /\ healthIssued' = healthIssued + 1
    /\ UNCHANGED <<healthReqs, retries>>
    /\ UNCHANGED <<appVars, inputVars, explorerVars, netVars, treeVars, metricVars>>
    /\ Did("healthRejected", None)

\* App.checkBackendHealth after its await, the call having failed
healthRejected ==
    /\ healthReqs > 0
    /\ healthReqs' = healthReqs - 1
    /\ backendHealth' = "error"
    /\ UNCHANGED <<healthIssued, retries>>
    /\ UNCHANGED <<appVars, inputVars, explorerVars, netVars, treeVars, metricVars>>
    /\ Did("healthRejected", None)

----------------------------------------------------------------------------
(* components/CodeExplorer.jsx *)

setSearchQuery(q) ==
    /\ ExplorerMounted
    /\ searchQuery' = q
    /\ UNCHANGED <<selectedFile, explanation, isExplaining, selectedCode,
                   appVars, inputVars, netVars>>
    /\ Did("setSearchQuery", q)

\* CodeExplorer.handleSearch: the search button or the Enter key
explorerHandleSearch ==
    /\ ExplorerMounted
    /\ Len(searchReqs) < MaxSearch
    /\ IF Trim(searchQuery) # << >>
       THEN handleSearch(Trim(searchQuery))
       ELSE UNCHANGED searchReqs
    /\ UNCHANGED <<appVars, inputVars, explorerVars, analyzeReqs, explainReqs>>
    /\ Did("handleSearch", searchQuery)

\* analysisData?.files || []
ExplorerFiles == IF analysisData = None THEN {} ELSE FilesOf(analysisData[1])

\* a click on a file node of the tree built from analysisData.files
selectFile(file) ==
    /\ ExplorerMounted
    /\ file \in ExplorerFiles
    /\ selectedFile' = Some(file)
    /\ explanation' = None
    /\ selectedCode' = ""
    /\ UNCHANGED <<isExplaining, searchQuery, appVars, inputVars, netVars>>
    /\ Did("selectFile", file)

\* the editor's cursor-selection event; selection is None for an empty (or
\* missing) selection and Some(text) for a non-empty range holding text
handleEditorSelectionChange(selection) ==
    /\ ExplorerMounted
    /\ selectedFile # None
    /\ selectedCode' = IF selection # None THEN selection[1] ELSE ""
    /\ UNCHANGED <<selectedFile, explanation, isExplaining, searchQuery,
                   appVars, inputVars, netVars>>
    /\ Did("handleEditorSelectionChange", selection)

\* (variant: the button rendered for a file without selected code)
ExplainOffered_WithoutCode ==
    ExplorerMounted /\ selectedFile # None /\ ~isExplaining

\* where the Explain Selected button is rendered and not disabled
ExplainOffered ==
    ExplorerMounted /\ selectedFile # None /\ selectedCode # "" /\ ~isExplaining

\* the body of the POST /explain-code request
ExplainBody ==
    [file_path    |-> selectedFile[1].path,
     code_snippet |-> selectedCode,
     language     |-> selectedFile[1].language,
     context      |-> <<"From file ", selectedFile[1].path, " in repository analysis">>]

\* (variant: the flag not raised while the request is in flight)
explainCode_FlagNotRaised ==
    /\ ExplainOffered
    /\ Len(explainReqs) < MaxExplain
    /\ IF selectedCode = "" \/ selectedFile = None
       THEN UNCHANGED explainReqs
       ELSE explainReqs' = Append(explainReqs, [body |-> ExplainBody, mounted |-> TRUE])
    /\ UNCHANGED <<selectedFile, explanation, isExplaining, selectedCode, searchQuery,
                   appVars, inputVars, analyzeReqs, searchReqs>>
    /\ Did("explainCode", Some(ExplainBody))

\* explainCode up to its await
explainCode ==
    /\ ExplainOffered
    /\ Len(explainReqs) < MaxExplain
    /\ IF selectedCode = "" \/ selectedFile = None
       THEN UNCHANGED <<isExplaining, explainReqs>>
       ELSE /\ isExplaining' = TRUE
            /\ explainReqs' = Append(explainReqs, [body |-> ExplainBody, mounted |-> TRUE])
    /\ UNCHANGED <<selectedFile, explanation, selectedCode, searchQuery,
                   appVars, inputVars, analyzeReqs, searchReqs>>
    /\ Did("explainCode", Some(ExplainBody))

\* the fixed payload of the catch block
FallbackExplanation ==
    [explanation |-> <<"Failed to generate explanation. Please try again.">>,
     key_concepts |-> << >>, best_practices |-> << >>, potential_issues |-> << >>]

\* (variant: the state kept outside the component, so every update lands)
SettersApply_Always(req) == TRUE

\* whether the state updates of a request's continuation take effect: React
\* drops those of a component that has unmounted
SettersApply(req) == req.mounted

\* explainCode after its await, the call having succeeded
explainResolved(i) ==
    /\ i \in 1..Len(explainReqs)
    /\ explainReqs' = SubSeq(explainReqs, 1, i - 1) \o Drop(explainReqs, i)
    /\ IF SettersApply(explainReqs[i])
       THEN /\ explanation' = Some(ExplainResponse(explainReqs[i].body))
            /\ isExplaining' = FALSE
       ELSE UNCHANGED <<explanation, isExplaining>>
    /\ UNCHANGED <<selectedFile, selectedCode, searchQuery,
                   appVars, inputVars, analyzeReqs, searchReqs>>
    /\ Did("explainResolved", explainReqs[i])

\* (variant: the flag lowered on the success path only)
explainRejected_FlagKept(i) ==
    /\ i \in 1..Len(explainReqs)
    /\ explainReqs' = SubSeq(explainReqs, 1, i - 1) \o Drop(explainReqs, i)
    /\ IF SettersApply(explainReqs[i])
       THEN explanation' = Some(FallbackExplanation)
       ELSE UNCHANGED explanation
    /\ UNCHANGED <<selectedFile, isExplaining, selectedCode, searchQuery,
                   appVars, inputVars, analyzeReqs, searchReqs>>
    /\ Did("explainRejected", explainReqs[i])

\* explainCode after its await, the call having failed
explainRejected(i) ==
    /\ i \in 1..Len(explainReqs)
    /\ explainReqs' = SubSeq(explainReqs, 1, i - 1) \o Drop(explainReqs, i)
    /\ IF SettersApply(explainReqs[i])
       THEN /\ explanation' = Some(FallbackExplanation)
            /\ isExplaining' = FALSE
       ELSE UNCHANGED <<explanation, isExplaining>>
    /\ UNCHANGED <<selectedFile, selectedCode, searchQuery,
                   appVars, inputVars, analyzeReqs, searchReqs>>
    /\ Did("explainRejected", explainReqs[i])

----------------------------------------------------------------------------
(* components/CodeExplorer.jsx: buildFileTree *)

\* file.path.split("/"): the segments between the slashes, empty ones kept
RECURSIVE Split(_)
Split(s) ==
    IF \A i \in 1..Len(s) : s[i] # "/"
    THEN <<s>>
    ELSE LET k == CHOOSE i \in 1..Len(s) :
                      s[i] = "/" /\ \A j \in 1..(i - 1) : s[j] # "/"
         IN  <<SubSeq(s, 1, k - 1)>> \o Split(Drop(s, k))

\* children[part] = node, on the plain object children
Put(children, part, node) ==
    [k \in DOMAIN children \cup {part} |-> IF k = part THEN node ELSE children[k]]

FolderNode(name) == [type |-> "folder", name |-> name, children |-> << >>]

FileNode(name, file) ==
    [type |-> "file", name |-> name, path |-> file.path, content |-> file.content,
     language |-> file.language, size |-> file.size]

\* reading or writing current.children[part] where current has no children
TypeError == [type |-> "TypeError"]

\* (variant: a folder met on the way is replaced by an empty one)
RECURSIVE partsForEach_FreshFolders(_, _, _)
partsForEach_FreshFolders(current, parts, file) ==
    LET part == Head(parts) IN
    IF current.type # "folder"
    THEN TypeError
    ELSE IF Len(parts) = 1
    THEN [current EXCEPT !.children = Put(@, part, FileNode(part, file))]
    ELSE LET below == partsForEach_FreshFolders(FolderNode(part), Tail(parts), file)
         IN  IF below.type = "TypeError"
             THEN TypeError
             ELSE [current EXCEPT !.children = Put(@, part, below)]

\* parts.forEach(...) from the node current on: the node as the loop leaves
\* it, or the TypeError raised when the node reached is a file node, which
\* has no children
RECURSIVE partsForEach(_, _, _)
partsForEach(current, parts, file) ==
    LET part == Head(parts) IN
    IF current.type # "folder"
    THEN TypeError
    ELSE IF Len(parts) = 1
    THEN [current EXCEPT !.children = Put(@, part, FileNode(part, file))]
    ELSE LET child == IF part \in DOMAIN current.children
                      THEN current.children[part]
                      ELSE FolderNode(part)
             below == partsForEach(child, Tail(parts), file)
         IN  IF below.type = "TypeError"
             THEN TypeError
             ELSE [current EXCEPT !.children = Put(@, part, below)]

\* files.forEach(...) on the tree built so far; an error ends the loop
RECURSIVE filesForEach(_, _)
filesForEach(tree, fs) ==
    IF fs = << >> \/ tree.type = "TypeError"
    THEN tree
    ELSE filesForEach(partsForEach(tree, Split(Head(fs).path), Head(fs)), Tail(fs))

buildFileTree(fs) == filesForEach(FolderNode("root"), fs)

\* the file nodes of a tree, each with the segments that lead to it
RECURSIVE Leaves(_, _)
Leaves(node, at) ==
    IF node.type = "file"
    THEN {[at |-> at, node |-> node]}
    ELSE UNION {Leaves(node.children[k], Append(at, k)) : k \in DOMAIN node.children}

\* the folder nodes of a tree, the root being at << >>
RECURSIVE Folders(_, _)
Folders(node, at) ==
    IF node.type = "file"
    THEN {}
    ELSE {at} \cup UNION {Folders(node.children[k], Append(at, k)) : k \in DOMAIN node.children}

\* the folder/file structure: which kind of node sits at which place
Shape(result) ==
    IF result.type = "TypeError"
    THEN [threw |-> TRUE, folders |-> {}, leaves |-> {}]
    ELSE [threw |-> FALSE, folders |-> Folders(result, << >>),
          leaves |-> {l.at : l \in Leaves(result, << >>)}]

\* the file records a backend listing may hold: a top-level file, nested
\* files, two versions of one path, and a path below the top-level file
TreeFiles ==
    { [path |-> <<"a">>, content |-> "v1", language |-> "text", size |-> 1],
      [path |-> <<"a", "/", "b">>, content |-> "v1", language |-> "text", size |-> 1],
      [path |-> <<"s", "/", "i">>, content |-> "v1", language |-> "js", size |-> 1],
      [path |-> <<"s", "/", "i">>, content |-> "v2", language |-> "js", size |-> 2],
      [path |-> <<"s", "/", "u", "/", "m">>, content |-> "v1", language |-> "js", size |-> 1] }

FileLists == UNION {[1..n -> TreeFiles] : n \in 0..MaxFiles}

\* the render of CodeExplorer: const fileTree = buildFileTree(files)
renderFileTree ==
    /\ fileTree = None
    /\ fileTree' = Some(buildFileTree(files))
    /\ UNCHANGED <<files, appVars, inputVars, explorerVars, netVars, healthVars, metricVars>>
    /\ Did("renderFileTree", None)

----------------------------------------------------------------------------
(* JavaScript Numbers: IEEE 754 doubles and the operations on them. *)

\* A natural number of any size: its digits to the base LimbBase, the least
\* significant first, with no leading zero digit.  (The significand of a
\* double has 53 bits and the product of two has 106.)
LimbBits == 14
LimbBase == 16384

Limb(a, i) == IF i <= Len(a) THEN a[i] ELSE 0

Min(a, b) == IF a < b THEN a ELSE b

RECURSIVE NTrim(_)
NTrim(a) == IF a # << >> /\ a[Len(a)] = 0 THEN NTrim(SubSeq(a, 1, Len(a) - 1)) ELSE a

RECURSIVE NFromInt(_)
NFromInt(k) == IF k = 0 THEN << >> ELSE <<k % LimbBase>> \o NFromInt(k \div LimbBase)

RECURSIVE NToInt(_)
NToInt(a) == IF a = << >> THEN 0 ELSE a[1] + LimbBase * NToInt(Tail(a))

RECURSIVE NAddFrom(_, _, _, _)
NAddFrom(a, b, i, carry) ==
    IF i > Len(a) /\ i > Len(b)
    THEN IF carry = 0 THEN << >> ELSE <<carry>>
    ELSE LET s == Limb(a, i) + Limb(b, i) + carry
         IN  <<s % LimbBase>> \o NAddFrom(a, b, i + 1, s \div LimbBase)

NAdd(a, b) == NAddFrom(a, b, 1, 0)

\* a - b, for a >= b
RECURSIVE NSubFrom(_, _, _, _)
NSubFrom(a, b, i, borrow) ==
    IF i > Len(a)
    THEN << >>
    ELSE LET d == a[i] - Limb(b, i) - borrow
         IN  IF d < 0
             THEN <<d + LimbBase>> \o NSubFrom(a, b, i + 1, 1)
             ELSE <<d>> \o NSubFrom(a, b, i + 1, 0)

\* a * k, for k < LimbBase
RECURSIVE NMulSmallFrom(_, _, _, _)
NMulSmallFrom(a, k, i, carry) ==
    IF i > Len(a)
    THEN IF carry = 0 THEN << >> ELSE <<carry>>
    ELSE LET p == a[i] * k + carry
         IN  <<p % LimbBase>> \o NMulSmallFrom(a, k, i + 1, p \div LimbBase)

NMulSmall(a, k) == IF k = 0 THEN << >> ELSE NMulSmallFrom(a, k, 1, 0)

NShlLimbs(a, n) == IF a = << >> THEN << >> ELSE [i \in 1..n |-> 0] \o a

RECURSIVE NMulFrom(_, _, _)
NMulFrom(a, b, j) ==
    IF j > Len(b)
    THEN << >>
    ELSE NAdd(NShlLimbs(NMulSmall(a, b[j]), j - 1), NMulFrom(a, b, j + 1))

RECURSIVE Pow2(_)
Pow2(s) == IF s = 0 THEN 1 ELSE 2 * Pow2(s - 1)

\* a * 2^bits
NShl(a, bits) == NShlLimbs(NMulSmall(a, Pow2(bits % LimbBits)), bits \div LimbBits)

\* quotient and remainder of a by n, for 0 < n <= LimbBase
RECURSIVE NDivSmallFrom(_, _, _, _)
NDivSmallFrom(a, n, i, r) ==
    IF i = 0
    THEN [q |-> << >>, r |-> r]
    ELSE LET x    == r * LimbBase + a[i]
             rest == NDivSmallFrom(a, n, i - 1, x % n)
         IN  [q |-> Append(rest.q, x \div n), r |-> rest.r]

TrimQuotient(d) == [q |-> NTrim(d.q), r |-> d.r]

NDivSmall(a, n) == TrimQuotient(NDivSmallFrom(a, n, Len(a), 0))

\* d the quotient and remainder of the digits kept, cut the digits dropped
WithSticky(d, cut) ==
    [q |-> d.q, sticky |-> d.r # 0 \/ \E i \in 1..Len(cut) : cut[i] # 0]

\* floor(a / 2^bits), and whether anything was cut off
NShr(a, bits) ==
    WithSticky(NDivSmall(SubSeq(a, bits \div LimbBits + 1, Len(a)), Pow2(bits % LimbBits)),
               SubSeq(a, 1, Min(bits \div LimbBits, Len(a))))

RECURSIVE BitLen(_)
BitLen(x) == IF x = 0 THEN 0 ELSE 1 + BitLen(x \div 2)

NBitLen(a) == IF a = << >> THEN 0 ELSE (Len(a) - 1) * LimbBits + BitLen(a[Len(a)])

RECURSIVE NLessFrom(_, _, _)
NLessFrom(a, b, i) ==
    IF i = 0 THEN FALSE
    ELSE IF a[i] # b[i] THEN a[i] < b[i]
    ELSE NLessFrom(a, b, i - 1)

NLess(a, b) ==
    IF Len(a) # Len(b) THEN Len(a) < Len(b) ELSE NLessFrom(a, b, Len(a))

\* A JavaScript Number that is finite and not negative: the IEEE 754 double
\* m * 2^e, with m of exactly Precision bits, or zero.
Precision == 53

Zero == [m |-> << >>, e |-> 0]

\* q of Precision bits, or 2^Precision after rounding up
Renormalize(q, e) ==
    IF NBitLen(q) > Precision
    THEN [m |-> NDivSmall(q, 2).q, e |-> e + 1]
    ELSE [m |-> q, e |-> e]

\* half.q the bits kept, half.r the first bit cut off, sticky whether a later
\* one is set: to the nearest, a tie to the even significand
RoundNearestEven(half, sticky, e) ==
    Renormalize(IF half.r = 1 /\ (sticky \/ half.q[1] % 2 = 1)
                THEN NAdd(half.q, <<1>>)
                ELSE half.q,
                e)

\* sh.q the bits kept and the first one cut off
RoundCut(sh, e) == RoundNearestEven(NDivSmall(sh.q, 2), sh.sticky, e)

\* n of len bits
NormalizeLen(n, e, len) ==
    IF len <= Precision
    THEN [m |-> NShl(n, Precision - len), e |-> e - (Precision - len)]
    ELSE RoundCut(NShr(n, len - Precision - 1), e + len - Precision)

\* the double nearest to n * 2^e
Normalize(n, e) == IF n = << >> THEN Zero ELSE NormalizeLen(n, e, NBitLen(n))

FromInt(k) == Normalize(NFromInt(k), 0)

\* x + y
FAdd(x, y) ==
    IF x = Zero THEN y
    ELSE IF y = Zero THEN x
    ELSE LET e == Min(x.e, y.e)
         IN  Normalize(NAdd(NShl(x.m, x.e - e), NShl(y.m, y.e - e)), e)

\* x - y, for x >= y
FSub(x, y) ==
    IF y = Zero THEN x
    ELSE LET e == Min(x.e, y.e)
         IN  Normalize(NTrim(NSubFrom(NShl(x.m, x.e - e), NShl(y.m, y.e - e), 1, 0)), e)

\* x * y
FMul(x, y) ==
    IF x = Zero \/ y = Zero THEN Zero ELSE Normalize(NMulFrom(x.m, y.m, 1), x.e + y.e)

\* d the quotient and remainder of a division: the remainder counts as one
\* more bit below the quotient
RoundQuotient(d, e) ==
    Normalize(NAdd(NShl(d.q, 1), IF d.r # 0 THEN <<1>> ELSE << >>), e - 1)

\* x / n, for an integer 0 < n < LimbBase
FDivInt(x, n) ==
    IF x = Zero THEN Zero
    ELSE RoundQuotient(NDivSmall(NShl(x.m, 2 * LimbBits), n), x.e - 2 * LimbBits)

\* x < y
FLess(x, y) ==
    IF y = Zero THEN FALSE
    ELSE IF x = Zero THEN TRUE
    ELSE x.e < y.e \/ (x.e = y.e /\ NLess(x.m, y.m))

\* Math.round(x): floor(x + 1/2), as an integer; for x < 2^31
MathRound(x) ==
    IF x = Zero THEN 0
    ELSE IF x.e >= 0 THEN NToInt(NShl(x.m, x.e))
    ELSE LET twice == NShr(x.m, (0 - x.e) - 1).q
         IN  NToInt(NDivSmall(NAdd(twice, <<1>>), 2).q)

\* the Number a decimal literal with one fractional digit denotes: k / 10
FromTenths(k) == FDivInt(FromInt(k), 10)

----------------------------------------------------------------------------
(* components/QualityScore.jsx: calculateMetrics *)

UpperCase == <<"A", "B", "C", "D", "E", "F", "G", "H", "I", "J", "K", "L", "M",
               "N", "O", "P", "Q", "R", "S", "T", "U", "V", "W", "X", "Y", "Z">>
LowerCase == <<"a", "b", "c", "d", "e", "f", "g", "h", "i", "j", "k", "l", "m",
               "n", "o", "p", "q", "r", "s", "t", "u", "v", "w", "x", "y", "z">>

toLowerCase(s) ==
    [i \in 1..Len(s) |->
        IF \E k \in 1..Len(UpperCase) : UpperCase[k] = s[i]
        THEN LowerCase[CHOOSE k \in 1..Len(UpperCase) : UpperCase[k] = s[i]]
        ELSE s[i]]

includes(s, sub) == \E i \in 1..Len(s) + 1 : HasAt(s, i, sub)

\* v || 0, for a score that is a Number or missing
OrZero(v) == IF v = None THEN Zero ELSE v[1]

\* scores.reduce((a, b) => a + b, 0): the sum, taken from the left
RECURSIVE reduceSum(_, _, _)
reduceSum(scores, i, acc) ==
    IF i > Len(scores) THEN acc ELSE reduceSum(scores, i + 1, FAdd(acc, scores[i]))

\* scores.length > 0 ? sum / scores.length : 0
Mean(scores) ==
    IF Len(scores) > 0 THEN FDivInt(reduceSum(scores, 1, Zero), Len(scores)) ELSE Zero

\* Math.round(x * 10) / 10
RoundToTenth(x) == FDivInt(FromInt(MathRound(FMul(x, FromInt(10)))), 10)

\* (variant: no upper limit)
MathMin_NoLimit(x, y) == x

\* Math.min(x, y)
MathMin(x, y) == IF FLess(y, x) THEN y ELSE x

\* documentation?.quality_score || ...: the left operand is taken when it
\* is truthy, that is present and not 0
Provided(quality_score) == quality_score # None /\ quality_score[1] # Zero

\* (variant: the verdict is the first of the recommendations)
Recommend_VerdictFirst(docCoverage, avgComplexity, testCoverage, overallScore) ==
    <<IF ~FLess(overallScore, FromInt(8))
      THEN [type |-> "success", text |-> "Excellent code quality! Keep up the good work"]
      ELSE IF ~FLess(overallScore, FromInt(6))
      THEN [type |-> "info", text |-> "Good code quality with room for improvement"]
      ELSE [type |-> "warning", text |-> "Consider focusing on code quality improvements"]>>
    \o (IF FLess(docCoverage, FromInt(5))
        THEN <<[type |-> "warning", text |-> "Improve code documentation and comments"]>>
        ELSE << >>)
    \o (IF FLess(FromInt(7), avgComplexity)
        THEN <<[type |-> "warning",
                text |-> "Reduce code complexity by refactoring large functions"]>>
        ELSE << >>)
    \o (IF FLess(testCoverage, FromInt(30))
        THEN <<[type |-> "info", text |-> "Add more unit tests for better coverage"]>>
        ELSE << >>)

\* the recommendations, in the order they are pushed
Recommend(docCoverage, avgComplexity, testCoverage, overallScore) ==
    (IF FLess(docCoverage, FromInt(5))
     THEN <<[type |-> "warning", text |-> "Improve code documentation and comments"]>>
     ELSE << >>)
    \o (IF FLess(FromInt(7), avgComplexity)
        THEN <<[type |-> "warning",
                text |-> "Reduce code complexity by refactoring large functions"]>>
        ELSE << >>)
    \o (IF FLess(testCoverage, FromInt(30))
        THEN <<[type |-> "info", text |-> "Add more unit tests for better coverage"]>>
        ELSE << >>)
    \o <<IF ~FLess(overallScore, FromInt(8))
         THEN [type |-> "success", text |-> "Excellent code quality! Keep up the good work"]
         ELSE IF ~FLess(overallScore, FromInt(6))
         THEN [type |-> "info", text |-> "Good code quality with room for improvement"]
         ELSE [type |-> "warning", text |-> "Consider focusing on code quality improvements"]>>

\* languageStats[lang], or the entry created when there is none
statsOf(stats, lang) ==
    IF lang \in DOMAIN stats
    THEN stats[lang]
    ELSE [count |-> 0, avgComplexity |-> Zero, avgDoc |-> Zero]

\* count++, avgComplexity += ..., avgDoc += ...
countEntry(prev, a) ==
    [count         |-> prev.count + 1,
     avgComplexity |-> FAdd(prev.avgComplexity, OrZero(a.complexity_score)),
     avgDoc        |-> FAdd(prev.avgDoc, OrZero(a.documentation_quality))]

\* analysis.forEach(...): per language the count and the two sums
RECURSIVE statsForEach(_, _, _)
statsForEach(stats, analysis, i) ==
    IF i > Len(analysis)
    THEN stats
    ELSE statsForEach(Put(stats, analysis[i].language,
                          countEntry(statsOf(stats, analysis[i].language), analysis[i])),
                      analysis, i + 1)

\* Object.keys(languageStats).forEach(...): the sums become means
statsMeans(sums) ==
    [lang \in DOMAIN sums |->
        [count         |-> sums[lang].count,
         avgComplexity |-> FDivInt(sums[lang].avgComplexity, sums[lang].count),
         avgDoc        |-> FDivInt(sums[lang].avgDoc, sums[lang].count)]]

LanguageStats(analysis) == statsMeans(statsForEach(<< >>, analysis, 1))

\* the scores before rounding; scores of entries are Numbers from 0 to 10
docCoverage(analysis) ==
    Mean([i \in 1..Len(analysis) |-> OrZero(analysis[i].documentation_quality)])

avgComplexity(analysis) ==
    Mean([i \in 1..Len(analysis) |-> OrZero(analysis[i].complexity_score)])

\* (variant: the complexity counted as it is, not inverted)
maintainability_NotInverted(doc, complexity) == FDivInt(FAdd(doc, complexity), 2)

maintainability(doc, complexity) ==
    FDivInt(FAdd(doc, FSub(FromInt(10), complexity)), 2)

testFiles(analysis) ==
    Cardinality({i \in 1..Len(analysis) :
                    includes(toLowerCase(analysis[i].file_path), <<"t", "e", "s", "t">>)})

testCoverage(analysis, filesLength) ==
    IF filesLength > 0
    THEN MathMin(FMul(FDivInt(FromInt(testFiles(analysis)), filesLength), FromInt(100)),
                 FromInt(100))
    ELSE Zero

overallScore(quality_score, doc, complexity, maintain, tests) ==
    IF Provided(quality_score)
    THEN quality_score[1]
    ELSE FAdd(FAdd(FAdd(FMul(doc, FromTenths(3)),
                        FMul(FSub(FromInt(10), complexity), FromTenths(3))),
                   FMul(maintain, FromTenths(2))),
              FMul(FDivInt(tests, 10), FromTenths(2)))

\* setMetrics({...}): the scores rounded, the recommendations and the rest
setMetrics(doc, complexity, maintain, tests, overall, analysis, filesLength) ==
    [documentation_coverage |-> RoundToTenth(doc),
     code_complexity        |-> RoundToTenth(complexity),
     maintainability_score  |-> RoundToTenth(maintain),
     test_coverage          |-> RoundToTenth(tests),
     overall_score          |-> RoundToTenth(overall),
     recommendations        |-> Recommend(doc, complexity, tests, overall),
     languageStats          |-> LanguageStats(analysis),
     totalFiles             |-> filesLength,
     analyzedFiles          |-> Len(analysis)]

\* calculateMetrics once maintainability is known
afterMaintainability(doc, complexity, maintain, tests, analysis, filesLength, quality_score) ==
    setMetrics(doc, complexity, maintain, tests,
               overallScore(quality_score, doc, complexity, maintain, tests),
               analysis, filesLength)

\* calculateMetrics once the means and the test coverage are known
afterMeans(doc, complexity, tests, analysis, filesLength, quality_score) ==
    afterMaintainability(doc, complexity, maintainability(doc, complexity), tests,
                         analysis, filesLength, quality_score)

\* calculateMetrics, for analysisData.analysis, analysisData.files.length and
\* documentation.quality_score: each const of the function is computed once
\* and handed on
calculateMetrics(analysis, filesLength, quality_score) ==
    afterMeans(docCoverage(analysis), avgComplexity(analysis),
               testCoverage(analysis, filesLength), analysis, filesLength, quality_score)

\* the analysis entries the backend may send: three files of one language
\* with scores given to one decimal, and a well-kept test file
AnalysisEntries ==
    { [file_path |-> <<"a", ".", "j", "s">>, language |-> "javascript",
       complexity_score |-> Some(FromTenths(85)), documentation_quality |-> Some(FromTenths(61))],
      [file_path |-> <<"b", ".", "j", "s">>, language |-> "javascript",
       complexity_score |-> Some(FromInt(9)), documentation_quality |-> Some(FromTenths(33))],
      [file_path |-> <<"c", ".", "j", "s">>, language |-> "javascript",
       complexity_score |-> Some(FromTenths(46)), documentation_quality |-> Some(FromTenths(56))],
      [file_path |-> <<"T", "e", "s", "t", ".", "p", "y">>, language |-> "python",
       complexity_score |-> None, documentation_quality |-> Some(FromInt(10))] }

\* documentation.quality_score: missing, 0, 7.25 or 8.5
QualityScores == {None, Some(Zero), Some(FDivInt(FromInt(29), 4)), Some(FromTenths(85))}

MetricsProps ==
    { [analysis |-> a, filesLength |-> n, quality_score |-> q] :
        a \in UNION {[1..k -> AnalysisEntries] : k \in 0..MaxEntries},
        n \in 0..MaxFileCount,
        q \in QualityScores }

\* the effect of QualityScore, analysisData and documentation being given
metricsEffect ==
    /\ props # None
    /\ metrics = None
    /\ metrics' = Some(calculateMetrics(props[1].analysis, props[1].filesLength,
                                        props[1].quality_score))
    /\ UNCHANGED <<props, appVars, inputVars, explorerVars, netVars, healthVars, treeVars>>
    /\ Did("metricsEffect", None)

----------------------------------------------------------------------------
(* The program: every task the event loop may run next.  The tasks fall in *)
(* four groups: the form, the workflow, the search and the explorer.  The  *)
(* form only writes the RepoInput state, the search only searchQuery,      *)
(* searchReqs and searchResults, the explorer only the CodeExplorer state  *)
(* and explainReqs; each reads the workflow state and nothing of the other *)
(* groups beyond the repoData a submission carries.                        *)

\* the example buttons the user tries in the specifications that are not
\* about the form
ReposTried == 2

\* no handler of the form, the workflow, the search or the explorer calls
\* checkBackendHealth or setBackendHealth
EditForm ==
    /\ \/ \E url \in TypedUrls : handleUrlChange(url)
       \/ \E b \in {"", "dev"} : setBranch(b)
    /\ UNCHANGED asideVars

ClickExample(n) ==
    /\ \E i \in 1..n : i <= Len(exampleRepos) /\ handleExampleClick(exampleRepos[i])
    /\ UNCHANGED asideVars

Workflow ==
    /\ \/ handleSubmit
       \/ \E result \in AnalysisResults : analyzeResolved(result)
       \/ \E e \in AxiosErrors : analyzeRejected(e)
       \/ clearAnalysis
       \/ \E tab \in {"overview", "explorer", "documentation", "quality"} : setActiveTab(tab)
    /\ UNCHANGED asideVars

Search ==
    /\ \/ \E q \in TypedQueries : setSearchQuery(q)
       \/ explorerHandleSearch
       \/ \E i \in 1..MaxSearch : searchResolved(i)
       \/ \E i \in 1..MaxSearch : searchRejected(i)
    /\ UNCHANGED asideVars

Explore ==
    /\ \/ \E file \in {FileA, FileB} : selectFile(file)
       \/ \E sel \in {None} \cup {Some(t) : t \in {"const a = 1;", "return a;"}} :
             handleEditorSelectionChange(sel)
       \/ explainCode
       \/ \E i \in 1..MaxExplain : explainResolved(i)
       \/ \E i \in 1..MaxExplain : explainRejected(i)
    /\ UNCHANGED asideVars

Health ==
    \/ retryConnection
    \/ healthResolved
    \/ healthRejected

Next == EditForm \/ ClickExample(Len(exampleRepos)) \/ Workflow \/ Search \/ Explore \/ Health

Spec == Init /\ [][Next]_vars

\* the form and the workflow, with everything the user may type
NextWorkflow == EditForm \/ ClickExample(Len(exampleRepos)) \/ Workflow

SpecWorkflow == Init /\ [][NextWorkflow]_vars

\* the workflow and the search, the repositories being ReposTried examples
NextSearch == ClickExample(ReposTried) \/ Workflow \/ Search

SpecSearch == Init /\ [][NextSearch]_vars

\* the workflow and the explorer, the repositories being ReposTried examples
NextExplorer == ClickExample(ReposTried) \/ Workflow \/ Explore

SpecExplorer == Init /\ [][NextExplorer]_vars

\* the health indicator beside the workflow on one example repository
NextHealth == ClickExample(1) \/ Workflow \/ Health

SpecHealth == Init /\ [][NextHealth]_vars

\* buildFileTree on every list of at most MaxFiles file records
InitTree ==
    /\ InitApp
    /\ files \in FileLists
    /\ fileTree = None
    /\ props = None
    /\ metrics = None

SpecTree == InitTree /\ [][renderFileTree]_vars

\* calculateMetrics on every analysis of at most MaxEntries entries, with
\* every file count up to MaxFileCount and every provided score
InitMetrics ==
    /\ InitApp
    /\ files = << >>
    /\ fileTree = None
    /\ props \in {Some(p) : p \in MetricsProps}
    /\ metrics = None

SpecMetrics == InitMetrics /\ [][metricsEffect]_vars


\* every POST /analyze-repo eventually returns or fails: the axios instance
\* has a 60 s timeout, after which the call fails as a transport error
AnalyzeReturns ==
    /\ \/ \E result \in AnalysisResults : analyzeResolved(result)
       \/ \E e \in AxiosErrors : analyzeRejected(e)
    /\ UNCHANGED asideVars

LiveWorkflow == SpecWorkflow /\ WF_vars(AnalyzeReturns)

\* every POST /explain-code eventually returns or fails, by the same timeout
ExplainReturns ==
    /\ \/ \E i \in 1..MaxExplain : explainResolved(i)
       \/ \E i \in 1..MaxExplain : explainRejected(i)
    /\ UNCHANGED asideVars

LiveExplorer == SpecExplorer /\ WF_vars(ExplainReturns)

----------------------------------------------------------------------------
(* Properties. *)

\* the request was issued for the selection that is current now
SameContext(req) ==
    /\ selectedFile # None
    /\ selectedFile[1].path = req.body.file_path
    /\ selectedCode = req.body.code_snippet

\* C1: a response (success or failure) to an explanation request changes the
\* explanation state only if the selected file and the selected code at
\* delivery are those the request was issued for; otherwise it is discarded.
C1_StaleResponseDiscarded ==
    [][\A i \in 1..MaxExplain :
          (explainResolved(i) \/ explainRejected(i)) /\ ~SameContext(explainReqs[i])
              => UNCHANGED <<explanation, isExplaining>>]_vars

\* C2: at most one /analyze-repo request awaits its response, and while the
\* workflow is loading no submit can be taken.
C2_SingleFlight ==
    /\ Len(analyzeReqs) <= 1
    /\ isLoading => ~ENABLED handleSubmit

C2_Witness == last.op = "handleSubmit" /\ Len(analyzeReqs) = 1 /\ isLoading

\* C3: a step issues an /analyze-repo request only if validateGitHubUrl
\* accepts the text of the URL field, and a submit with a rejected text
\* changes neither the workflow state nor the requests in flight.
C3_ValidationGate ==
    [][/\ Len(analyzeReqs') > Len(analyzeReqs) => validateGitHubUrl(repoUrl)
       /\ handleSubmit /\ ~validateGitHubUrl(repoUrl)
              => UNCHANGED <<appVars, netVars>>]_vars

C3_Witness ==
    /\ last = [op |-> "handleSubmit", arg |-> None, from |-> "Idle"]
    /\ repoUrl = UrlOther

\* C4: after a failed submission whose failure is an error status, the error
\* shown is the fixed text of the status class: 422 the invalid-input text,
\* 404 the not-found text, 500 the server-error text; any other failure
\* shows none of these three.
C4_StatusTextMapping ==
    last.op = "analyzeRejected" =>
        LET st == IF last.arg.response # None THEN last.arg.response[1].status ELSE 0
        IN  /\ st = 422 => error = Some("Invalid input data. Please check your repository URL.")
            /\ st = 404 => error = Some("Repository not found. Please check the URL and try again.")
            /\ st = 500 => error = Some("Server error. Please try again later.")
            /\ st \notin {422, 404, 500} =>
                   /\ error # None
                   /\ error[1] \notin {"Invalid input data. Please check your repository URL.",
                                       "Repository not found. Please check the URL and try again.",
                                       "Server error. Please try again later."}

\* C5: right after clearAnalysis the workflow is Idle: no result, no
\* repository context, no search results, no error, not loading, and the
\* overview tab active.
C5_ClearPostcondition ==
    last.op = "clearAnalysis" =>
        /\ WState = "Idle"
        /\ analysisData = None
        /\ currentRepo = None
        /\ searchResults = None
        /\ error = None
        /\ ~isLoading
        /\ activeTab = "overview"

C5_Witness ==
    /\ last.op = "clearAnalysis"
    /\ last.from = "Ready"
    /\ last.arg.tab = "explorer"
    /\ last.arg.held

\* a result is stored only by a step that leaves Submitting, and the result
\* it replaces is none: nothing is merged
StoresFreshResult ==
    analysisData' # analysisData /\ analysisData' # None
        => WState = "Submitting" /\ analysisData = None

\* C6 (as claimed): the workflow starts Idle and changes state only by
\* Idle -> Submitting, Submitting -> Ready (storing the new result),
\* Submitting -> Failed, and any state -> Idle; no submission starts from
\* Ready or Failed.
C6_OnlyIdleSubmits ==
    /\ WState = "Idle"
    /\ [][/\ WState' # WState =>
                \/ <<WState, WState'>> \in {<<"Idle", "Submitting">>,
                                            <<"Submitting", "Ready">>,
                                            <<"Submitting", "Failed">>}
                \/ WState' = "Idle"
          /\ StoresFreshResult]_vars

\* C6 (amended): as above, with Failed -> Submitting as well: the form is
\* rendered beside the error panel, and an accepted submit there starts a
\* submission. No submission starts from Ready.
C6_Transitions ==
    /\ WState = "Idle"
    /\ [][/\ WState' # WState =>
                \/ <<WState, WState'>> \in {<<"Idle", "Submitting">>,
                                            <<"Failed", "Submitting">>,
                                            <<"Submitting", "Ready">>,
                                            <<"Submitting", "Failed">>}
                \/ WState' = "Idle"
          /\ StoresFreshResult]_vars

C6_Witness ==
    /\ last.op = "handleSubmit"
    /\ last.from = "Failed"
    /\ WState = "Submitting"

\* C7: every Submitting state is followed by Ready or Failed, the loading
\* flag cleared, whichever way the backend call ends.
C7_SubmissionResolves ==
    (WState = "Submitting") ~> (~isLoading /\ WState \in {"Ready", "Failed"})

C7_Witness ==
    /\ last.op = "analyzeRejected"
    /\ last.arg.response = None
    /\ WState = "Failed"

\* C8: right after selectFile the selected code is empty, no explanation is
\* held and no explanation is pending.
C8_SelectFileResets ==
    last.op = "selectFile" =>
        selectedCode = "" /\ explanation = None /\ ~isExplaining

\* C9: a selection change with a non-empty range leaves a selection, one
\* with an empty range leaves none, and no explanation is held while the
\* selected code is empty.
C9_NoPayloadWithoutSelection ==
    /\ last.op = "handleEditorSelectionChange" =>
           (selectedCode # "") = (last.arg # None)
    /\ selectedCode = "" => explanation = None

\* C10: while no result is held the CodeExplorer state does not exist and
\* every explanation request still in flight belongs to an unmounted
\* component; when a new result arrives no file is selected, no code is
\* selected and no explanation is held or pending; and the response to a
\* request of an unmounted component changes nothing of the CodeExplorer
\* state.
C10_SelectionResetOnReplace ==
    /\ [](analysisData = None =>
             /\ CodeExplorerInit(selectedFile, explanation, isExplaining,
                                 selectedCode, searchQuery)
             /\ \A i \in 1..Len(explainReqs) : ~explainReqs[i].mounted)
    /\ [](last.op = "analyzeResolved" =>
             CodeExplorerInit(selectedFile, explanation, isExplaining,
                              selectedCode, searchQuery))
    /\ [][\A i \in 1..MaxExplain :
             (explainResolved(i) \/ explainRejected(i)) /\ ~explainReqs[i].mounted
                 => UNCHANGED explorerVars]_vars

C10_Witness ==
    /\ last.op \in {"explainResolved", "explainRejected"}
    /\ ~last.arg.mounted
    /\ last.arg.body.file_path = FileA.path
    /\ ExplorerMounted
    /\ FileA \notin ExplorerFiles
    /\ selectedFile # None

\* C11: the continuation of App.handleSearch stores the response it receives
\* whatever the repository context is at that moment: right after a search
\* response is delivered, the held search results are that response, also
\* when the request was issued under another repository or before a clear.
C11_ResponseStoredUnconditionally ==
    last.op = "searchResolved" => searchResults = Some(SearchResponse(last.arg))

\* the held results belong to a repository that is no longer the current
\* one: another repository has been analysed since the search was issued
C11_Witness ==
    /\ last.op = "searchResolved"
    /\ searchResults # None
    /\ currentRepo # None
    /\ analysisData # None
    /\ searchResults[1].results[1].repo_name # currentRepo[1].repo_name

\* C12: the number of GET /health requests issued is always one (the check
\* at start-up) plus the number of clicks on Retry Connection: no timer and
\* no other handler issues one, and no more checks await their response
\* than were issued.
C12_HealthChecksCounted ==
    /\ healthIssued = 1 + retries
    /\ healthReqs <= healthIssued

\* both retries taken while earlier checks had failed, one of them during a
\* running analysis
C12_Witness ==
    /\ retries = MaxRetries
    /\ healthIssued = 1 + MaxRetries
    /\ healthReqs = 1
    /\ isLoading

\* the segments of the paths of a list, and the folders those paths name
PathsOf(fs) == {Split(fs[i].path) : i \in 1..Len(fs)}
ProperPrefixes(fs) ==
    UNION {{SubSeq(q, 1, k) : k \in 1..(Len(q) - 1)} : q \in PathsOf(fs)}

\* as in the listing of a directory tree: no path twice, and no path that
\* is a file in one record and a folder on the way to another
ListingLike(fs) ==
    /\ \A i, j \in 1..Len(fs) : i # j => fs[i].path # fs[j].path
    /\ PathsOf(fs) \cap ProperPrefixes(fs) = {}

\* N leaves, every record at the leaf its path addresses, and one folder
\* for every proper prefix of a path
CountsMatch(fs, tree) ==
    /\ tree.type = "folder"
    /\ Cardinality(Leaves(tree, << >>)) = Len(fs)
    /\ \A i \in 1..Len(fs) :
          LET parts == Split(fs[i].path)
          IN  [at |-> parts, node |-> FileNode(parts[Len(parts)], fs[i])]
                  \in Leaves(tree, << >>)
    /\ Folders(tree, << >>) \ {<< >>} = ProperPrefixes(fs)

Reorderings(fs) ==
    {[i \in 1..Len(fs) |-> fs[f[i]]] : f \in Permutations(1..Len(fs))}

\* C14: for every file list and every permutation of it, buildFileTree gives
\* the same folder/file structure, also when a path is a proper prefix of
\* another or paths repeat.
C14_OrderIndependentShape ==
    fileTree # None =>
        \A fs \in Reorderings(files) : Shape(buildFileTree(fs)) = Shape(fileTree[1])

\* C15: for every list of file records buildFileTree returns a tree rooted
\* at the folder named "root" and raises no error; the empty list gives the
\* root with no children.
C15_NoFailureMode ==
    fileTree # None =>
        /\ fileTree[1].type = "folder"
        /\ fileTree[1].name = "root"
        /\ files = << >> => fileTree[1].children = << >>

\* the recommendation entries by what they are about
DocWarning   == [type |-> "warning", text |-> "Improve code documentation and comments"]
CxWarning    == [type |-> "warning",
                 text |-> "Reduce code complexity by refactoring large functions"]
TestsInfo    == [type |-> "info", text |-> "Add more unit tests for better coverage"]
VerdictTexts == {"Excellent code quality! Keep up the good work",
                 "Good code quality with room for improvement",
                 "Consider focusing on code quality improvements"}
WarningVerdict == [type |-> "warning",
                   text |-> "Consider focusing on code quality improvements"]

EmptyInput ==
    props # None /\ props[1].analysis = << >> /\ props[1].filesLength = 0
        /\ props[1].quality_score = None

\* C16 (as stated): for an empty analysis list, a file count of 0 and no
\* provided score, the four component scores and the overall score are 0 and
\* the recommendations are non-empty and contain the warning verdict.
C16_EmptyInputAllZero ==
    metrics # None /\ EmptyInput =>
        /\ metrics[1].documentation_coverage = Zero
        /\ metrics[1].code_complexity = Zero
        /\ metrics[1].maintainability_score = Zero
        /\ metrics[1].test_coverage = Zero
        /\ metrics[1].overall_score = Zero
        /\ \E i \in 1..Len(metrics[1].recommendations) :
              metrics[1].recommendations[i] = WarningVerdict

\* C16 (amended): for that input documentation_coverage, code_complexity and
\* test_coverage are 0, maintainability_score is 5 and overall_score is 4,
\* and the recommendations are the documentation warning, the add-tests info
\* and the warning verdict.
C16_EmptyInputMetrics ==
    metrics # None /\ EmptyInput =>
        /\ metrics[1].documentation_coverage = Zero
        /\ metrics[1].code_complexity = Zero
        /\ metrics[1].maintainability_score = FromInt(5)
        /\ metrics[1].test_coverage = Zero
        /\ metrics[1].overall_score = FromInt(4)
        /\ metrics[1].recommendations = <<DocWarning, TestsInfo, WarningVerdict>>
        /\ metrics[1].languageStats = << >>

C16_Witness == metrics # None /\ EmptyInput /\ last.op = "metricsEffect"

\* the analysis lists that hold the entries of a list in another order
Permuted(analysis) ==
    {[i \in 1..Len(analysis) |-> analysis[f[i]]] : f \in Permutations(1..Len(analysis))}

\* C17: computing the metrics on any permutation of the analysis sequence
\* gives the same five scores, the same recommendation sequence and the same
\* languageStats mapping.
C17_PermutationInvariant ==
    metrics # None =>
        \A a \in Permuted(props[1].analysis) :
            calculateMetrics(a, props[1].filesLength, props[1].quality_score) = metrics[1]

\* C18: with no provided score and entry scores from 0 to 10, overall_score
\* is at most 10 (and, as every Number here, at least 0: the inverted
\* complexity 10 - code_complexity is not negative), and test_coverage is at
\* most 100, whatever the file count.
C18_ScoresInRange ==
    metrics # None =>
        /\ ~FLess(FromInt(100), metrics[1].test_coverage)
        /\ ~FLess(FromInt(10), metrics[1].code_complexity)
        /\ props[1].quality_score = None =>
              /\ ~FLess(FromInt(10), metrics[1].overall_score)
              /\ ~FLess(metrics[1].overall_score, Zero)

\* the top of the range: one perfect test file, more tests than files
C18_Witness ==
    /\ metrics # None
    /\ props[1].quality_score = None
    /\ Len(props[1].analysis) = 2
    /\ props[1].filesLength = 1
    /\ metrics[1].test_coverage = FromInt(100)
    /\ metrics[1].overall_score = FromInt(10)

\* the verdict for an overall score
VerdictType(score) ==
    IF ~FLess(score, FromInt(8)) THEN "success"
    ELSE IF ~FLess(score, FromInt(6)) THEN "info"
    ELSE "warning"

\* C19: a provided overall score (a value from 0 to 10) is the overall_score,
\* rounded to one decimal, and the verdict is derived from it; the weighted
\* formula is used only when no score is provided.
C19_ProvidedScoreWins ==
    metrics # None /\ props[1].quality_score # None =>
        LET recs == metrics[1].recommendations IN
        /\ metrics[1].overall_score = RoundToTenth(props[1].quality_score[1])
        /\ recs[Len(recs)].type = VerdictType(props[1].quality_score[1])

\* what a recommendation is about: 1 documentation, 2 complexity, 3 tests,
\* 4 the verdict
Rank(rec) ==
    IF rec = DocWarning THEN 1
    ELSE IF rec = CxWarning THEN 2
    ELSE IF rec = TestsInfo THEN 3
    ELSE 4

\* C20: the recommendations are, in this order, the documentation warning
\* iff the documentation coverage is below 5, the complexity warning iff the
\* code complexity is above 7, the add-tests info iff the test coverage is
\* below 30, and then exactly one verdict, always last: success for an
\* overall score of at least 8, else info for at least 6, else warning.  The
\* scores compared are those before rounding to one decimal.
C20_RecommendationShape ==
    metrics # None =>
        LET recs    == metrics[1].recommendations
            a       == props[1].analysis
            n       == props[1].filesLength
            overall == overallScore(props[1].quality_score, docCoverage(a),
                                    avgComplexity(a),
                                    maintainability(docCoverage(a), avgComplexity(a)),
                                    testCoverage(a, n))
            Has(r)  == \E i \in 1..Len(recs) : recs[i] = r
        IN  /\ Len(recs) >= 1
            /\ \A i, j \in 1..Len(recs) : i < j => Rank(recs[i]) < Rank(recs[j])
            /\ Has(DocWarning) <=> FLess(docCoverage(a), FromInt(5))
            /\ Has(CxWarning) <=> FLess(FromInt(7), avgComplexity(a))
            /\ Has(TestsInfo) <=> FLess(testCoverage(a, n), FromInt(30))
            /\ Rank(recs[Len(recs)]) = 4
            /\ recs[Len(recs)].text \in VerdictTexts
            /\ recs[Len(recs)].type = VerdictType(overall)
            /\ recs[Len(recs)].type = "success" <=>
                  recs[Len(recs)].text = "Excellent code quality! Keep up the good work"
            /\ recs[Len(recs)].type = "warning" <=>
                  recs[Len(recs)].text = "Consider focusing on code quality improvements"

\* all three warnings before the verdict
C20_Witness ==
    /\ metrics # None
    /\ Len(metrics[1].recommendations) = 4
    /\ metrics[1].recommendations[4].type = "warning"

\* a reference made of `prefix`, an owner, a slash, a repository and `suffix`,
\* owner and repository being non-empty runs of letters, digits, _ . and -
HasShape(u, prefix, suffix) ==
    \E i \in 1..Len(u), j \in 1..Len(u) :
        /\ SubSeq(u, 1, i) = prefix
        /\ u[j] = "/"
        /\ i + 1 < j
        /\ \A k \in i + 1..j - 1 : u[k] \in NameChars
        /\ j < Len(u) - Len(suffix)
        /\ \A k \in j + 1..Len(u) - Len(suffix) : u[k] \in NameChars
        /\ SubSeq(u, Len(u) - Len(suffix) + 1, Len(u)) = suffix

\* https://github.com/owner/repo, https://github.com/owner/repo.git or
\* git@github.com:owner/repo.git
ThreeShapes(u) ==
    \/ HasShape(u, HttpsGithub, << >>)
    \/ HasShape(u, HttpsGithub, DotGit)
    \/ HasShape(u, GitAtGithub, DotGit)

\* C21 (as stated): validateGitHubUrl accepts a reference exactly when,
\* surrounding whitespace aside, it has one of the three shapes.
C21_ExactlyThreeShapes ==
    last.op = "handleUrlChange" => (isValid <=> ThreeShapes(Trim(last.arg)))

\* C21: validateGitHubUrl accepts https://github.com/acme/widgets and
\* git@github.com:acme/widgets.git and rejects
\* https://example.com/acme/widgets; it accepts a reference exactly when,
\* surrounding whitespace removed, it has one of the three shapes or is the
\* first shape followed by one slash.
C21_AcceptedShapes ==
    last.op = "handleUrlChange" =>
        /\ last.arg = UrlWeb => isValid
        /\ last.arg = UrlSsh => isValid
        /\ last.arg = UrlOther => ~isValid
        /\ isValid <=> \/ ThreeShapes(Trim(last.arg))
                       \/ HasShape(Trim(last.arg), HttpsGithub, <<"/">>)

\* the web form with a trailing slash has been typed and is taken as valid
C21_Witness ==
    /\ last.op = "handleUrlChange"
    /\ last.arg = UrlTrailingSlash
    /\ repoUrl = UrlTrailingSlash
    /\ isValid

\* C22: right after an explanation request of the mounted CodeExplorer has
\* failed, the explanation held is the fixed fallback payload (the failure
\* text, no key concepts, no best practices, no potential issues), the
\* Explaining flag is lowered, and the Explain button is offered again as soon
\* as a file and a non-empty code selection are present.
C22_ExplainFailureNonFatal ==
    last.op = "explainRejected" /\ last.arg.mounted =>
        /\ explanation # None
        /\ explanation[1].explanation = <<"Failed to generate explanation. Please try again.">>
        /\ explanation[1].key_concepts = << >>
        /\ explanation[1].best_practices = << >>
        /\ explanation[1].potential_issues = << >>
        /\ ~isExplaining
        /\ (selectedFile # None /\ selectedCode # "" => ExplainOffered)

\* a further explanation has been requested while the fallback payload of
\* the failed one is still shown
C22_Witness ==
    /\ last.op = "explainCode"
    /\ explanation = Some(FallbackExplanation)
    /\ isExplaining
    /\ Len(explainReqs) = 1
    /\ explainReqs[1].mounted

\* C23: the delivery of a search failure changes neither the held search
\* results, nor the analysis result, nor the repository context, nor the
\* workflow state (loading flag, result, error), nor the active tab.
C23_SearchFailureFrame ==
    [][\A i \in 1..MaxSearch :
          searchRejected(i) =>
              /\ UNCHANGED <<searchResults, analysisData, currentRepo, isLoading,
                             error, activeTab>>
              /\ WState' = WState]_vars

\* a search has failed while the results of an earlier search were held
C23_Witness ==
    /\ last.op = "searchRejected"
    /\ searchResults # None
    /\ analysisData # None
    /\ currentRepo # None
    /\ activeTab = "explorer"

\* C24: the search field exists only while a repository context is present,
\* so no search is ever run without one; a step that issues a /search-code
\* request is taken with a repository context present, and the request
\* carries the repo_name of that context and the limit 10; every request in
\* flight has the limit 10.
C24_SearchBinding ==
    /\ [](ExplorerMounted => currentRepo # None)
    /\ [](\A i \in 1..Len(searchReqs) : searchReqs[i].limit = 10)
    /\ [][Len(searchReqs') > Len(searchReqs) =>
             /\ currentRepo # None
             /\ currentRepo' = currentRepo
             /\ searchReqs'[Len(searchReqs')].repo_name = currentRepo[1].repo_name
             /\ searchReqs'[Len(searchReqs')].limit = 10
             /\ SubSeq(searchReqs', 1, Len(searchReqs)) = searchReqs]_vars

\* two requests are in flight, issued under two different repositories
C24_Witness ==
    /\ last.op = "handleSearch"
    /\ Len(searchReqs) = 2
    /\ searchReqs[1].repo_name # searchReqs[2].repo_name
    /\ currentRepo # None
    /\ searchReqs[2].repo_name = currentRepo[1].repo_name

\* C25: every trigger of explainCode is taken with a file selected and a
\* non-empty selected code, and issues one request; a step that issues an
\* /explain-code request raises the Explaining flag, and the request carries
\* the path of the selected file, the selected code, the language of the
\* file and a context string that contains the path; nothing else issues a
\* request.
C25_ExplainPayload ==
    /\ [][explainCode =>
             /\ selectedFile # None
             /\ selectedCode # ""
             /\ Len(explainReqs') = Len(explainReqs) + 1]_vars
    /\ [][Len(explainReqs') > Len(explainReqs) =>
             /\ selectedFile # None
             /\ selectedCode # ""
             /\ isExplaining'
             /\ LET req == explainReqs'[Len(explainReqs')].body
                IN  /\ req.file_path = selectedFile[1].path
                    /\ req.code_snippet = selectedCode
                    /\ req.language = selectedFile[1].language
                    /\ \E k \in 1..Len(req.context) : req.context[k] = selectedFile[1].path
             /\ SubSeq(explainReqs', 1, Len(explainReqs)) = explainReqs]_vars

\* a request for a selection of the Python file has just been issued
C25_Witness ==
    /\ last.op = "explainCode"
    /\ isExplaining
    /\ explainReqs # << >>
    /\ explainReqs[Len(explainReqs)].body.file_path = "src/utils/math.py"
    /\ explainReqs[Len(explainReqs)].body.language = "python"
    /\ explainReqs[Len(explainReqs)].body.code_snippet = "return a;"

\* C26: the health state is one of "checking", "healthy" and "error"; it is
\* "checking" exactly as long as no /health response has been delivered;
\* right after the delivery of a successful response it is "healthy", and
\* right after the delivery of a failure it is "error".
C26_HealthStateMapping ==
    /\ backendHealth \in {"checking", "healthy", "error"}
    /\ backendHealth = "checking" <=> healthIssued - healthReqs = 0
    /\ last.op = "healthResolved" => backendHealth = "healthy"
    /\ last.op = "healthRejected" => backendHealth = "error"

\* a retried check has succeeded after the failure of an earlier one
C26_Witness ==
    /\ last.op = "healthResolved"
    /\ retries >= 1
    /\ backendHealth = "healthy"
    /\ healthReqs = 0

\* C27: when the last of the searches in flight has been answered, and a
\* search issued after it had already stored its results while it was in
\* flight, the results held are still those of the search issued later.
C27_LatestSearchWins ==
    last.op = "searchResolved" /\ searchReqs = << >> /\ last.arg.newer # None =>
        searchResults = last.arg.newer

\* C28: at most one of "loading", "a result is held" and "an error is held"
\* is true; whenever a result is held a repository context is held; the
\* step that stores a result leaves as the context the request that was
\* answered; and the context does not change while the result stays held.
C28_FlagsExclusive ==
    /\ [](Cardinality({f \in {"loading", "result", "error"} :
                          \/ f = "loading" /\ isLoading
                          \/ f = "result" /\ analysisData # None
                          \/ f = "error" /\ error # None}) <= 1)
    /\ [](analysisData # None => currentRepo # None)
    /\ [][analysisData = None /\ analysisData' # None =>
             /\ analyzeReqs # << >>
             /\ currentRepo' = Some(Head(analyzeReqs))]_vars
    /\ [][analysisData # None /\ analysisData' # None =>
             /\ analysisData' = analysisData
             /\ currentRepo' = currentRepo]_vars

\* a result has just been stored, for a request typed as an SSH reference,
\* and the context held is that request
C28_Witness ==
    /\ last.op = "analyzeResolved"
    /\ last.from = "Submitting"
    /\ analysisData # None
    /\ ~isLoading
    /\ error = None
    /\ currentRepo = Some(last.arg)
    /\ last.arg.repo_name = <<"u", "n", "k", "n", "o", "w", "n">>

\* the owner/repo of an accepted reference: what follows the host, without
\* the .git suffix or the trailing slash
OwnerSlashRepo(u) ==
    LET body == IF StartsWith(u, HttpsGithub)
                THEN Drop(u, Len(HttpsGithub))
                ELSE Drop(u, Len(GitAtGithub))
    IN  IF EndsWith(body, DotGit) THEN SubSeq(body, 1, Len(body) - Len(DotGit))
        ELSE IF body[Len(body)] = "/" THEN SubSeq(body, 1, Len(body) - 1)
        ELSE body

\* C29: the request of every accepted submission carries as repo_name the
\* owner/repo of the submitted reference, and never the placeholder
\* "unknown".
C29_DerivedRepoName ==
    last.op = "handleSubmit" /\ last.arg # None =>
        /\ last.arg[1].repo_name = OwnerSlashRepo(last.arg[1].repo_url)
        /\ last.arg[1].repo_name # <<"u", "n", "k", "n", "o", "w", "n">>

\* C30: the Explaining flag of the mounted CodeExplorer is raised exactly
\* while one of its explanation requests is in flight; at most one of its
\* requests is in flight at a time, whatever the files selected; the delivery
\* of the response or of the failure lowers the flag; and a raised flag is
\* eventually lowered.
C30_FlagTracksRequest ==
    /\ [](isExplaining <=> \E i \in 1..Len(explainReqs) : explainReqs[i].mounted)
    /\ [](Cardinality({i \in 1..Len(explainReqs) : explainReqs[i].mounted}) <= 1)
    /\ [][\A i \in 1..MaxExplain :
             (explainResolved(i) \/ explainRejected(i)) /\ explainReqs[i].mounted
                 => ~isExplaining']_vars
    /\ (isExplaining ~> ~isExplaining)

\* the request of the first file is in flight, with the flag raised, while
\* the second file is selected with code: the button is disabled
C30_Witness ==
    /\ isExplaining
    /\ Len(explainReqs) = 1
    /\ explainReqs[1].mounted
    /\ selectedFile # None
    /\ selectedFile[1].path # explainReqs[1].body.file_path
    /\ selectedCode # ""
    /\ ~ExplainOffered

====
